---- MODULE Spec2Model ----
(***************************************************************************)
(* Layer classification and layout-extraction pipeline of the PSD web      *)
(* asset extractor, in its two variants:                                   *)
(*   "basic" : src/psd.py           PSDWebExtractor.extract_all_layers     *)
(*   "ai"    : src/psd增强-AI版.py   PSDWebExtractor.extract_all_layers     *)
(* Strings the code inspects character by character (layer names, kinds,   *)
(* file names) are sequences of one-character strings.  An attribute of a  *)
(* layer handle is <<>> when the handle does not have it (hasattr false)   *)
(* and <<v>> when it has value v.                                          *)
(***************************************************************************)
EXTENDS Integers, Sequences, FiniteSets, TLC

\* ------------------------------------------------------------------ bounds
MaxLayers == 2
MaxNameLen == 2
MaxCoord == 1
MaxMainLayers == 1
LongDocumentLen == 15

\* ------------------------------------------------------- program constants
MaxCleanLen == 50
PadWidth == 3
MinExtent == 1
DefaultOpacity == 100

\* ------------------------------------------------------------- characters
IllegalChars == {"<", ">", ":", "\"", "/", "\\", "|", "?", "*"}

Whitespace == {" ", "\t"}

DigitChars == <<"0", "1", "2", "3", "4", "5", "6", "7", "8", "9">>

PngSuffix == <<".", "p", "n", "g">>

ImagesPrefix == <<"i", "m", "a", "g", "e", "s", "/">>

AdjustmentWord == <<"a", "d", "j", "u", "s", "t", "m", "e", "n", "t">>

\* The kinds a layer handle reports, with their spelling.
KindChars ==
    [ type        |-> <<"t", "y", "p", "e">>,
      pixel       |-> <<"p", "i", "x", "e", "l">>,
      shape       |-> <<"s", "h", "a", "p", "e">>,
      group       |-> <<"g", "r", "o", "u", "p">>,
      smartobject |-> <<"s", "m", "a", "r", "t", "o", "b", "j", "e", "c", "t">>,
      adjustment  |-> AdjustmentWord,
      HueAdjustment |-> <<"H", "u", "e", "A", "d", "j", "u", "s", "t", "m", "e", "n", "t">> ]

Kinds == DOMAIN KindChars

\* str.lower() on the letters that occur in kinds.
LowerChar(c) ==
    CASE c = "A" -> "a"
      [] c = "H" -> "h"
      [] OTHER -> c

Lower(s) == [k \in 1..Len(s) |-> LowerChar(s[k])]

\* Python's `needle in haystack` on strings.
Contains(haystack, needle) ==
    \E k \in 0..(Len(haystack) - Len(needle)) :
        \A j \in 1..Len(needle) : haystack[k + j] = needle[j]

\* ------------------------------------------------------ attribute access
HasAttr(a) == a # <<>>

GetAttr(a, default) == IF a = <<>> THEN default ELSE a[1]

Max(a, b) == IF a >= b THEN a ELSE b

\* ------------------------------------------------------------ classifier
RECURSIVE LStrip(_, _)
LStrip(s, chars) ==
    IF s # <<>> /\ s[1] \in chars THEN LStrip(Tail(s), chars) ELSE s

RECURSIVE RStrip(_, _)
RStrip(s, chars) ==
    IF s # <<>> /\ s[Len(s)] \in chars
    THEN RStrip(SubSeq(s, 1, Len(s) - 1), chars)
    ELSE s

\* str.strip(chars): both ends.
Strip(s, chars) == RStrip(LStrip(s, chars), chars)

\* Variant: the character class misses the backslash.
ReplaceIllegal_KeepsBackslash(name) ==
    [k \in 1..Len(name) |->
        IF name[k] \in IllegalChars \ {"\\"} THEN "_" ELSE name[k]]

\* re.sub(r'[<>:"/\\|?*]', '_', name)
ReplaceIllegal(name) ==
    [k \in 1..Len(name) |-> IF name[k] \in IllegalChars THEN "_" ELSE name[k]]

_sanitize_filename(name) ==
    LET clean == Strip(Strip(ReplaceIllegal(name), Whitespace), {"."})
    IN  IF Len(clean) > MaxCleanLen THEN SubSeq(clean, 1, MaxCleanLen) ELSE clean

RECURSIVE Decimal(_)
Decimal(n) ==
    IF n < 10 THEN <<DigitChars[n + 1]>>
    ELSE Decimal(n \div 10) \o <<DigitChars[(n % 10) + 1]>>

RECURSIVE ZeroPad(_, _)
ZeroPad(s, width) == IF Len(s) >= width THEN s ELSE ZeroPad(<<"0">> \o s, width)

\* f"{index:03d}"
Format03d(index) == ZeroPad(Decimal(index), PadWidth)

\* Variant: the file name is built from the cleaned name alone.
AssetFilename_NoIndex(index, clean_name) ==
    <<"0", "0", "0", "_">> \o clean_name \o PngSuffix

\* f"{index:03d}_{clean_name}.png"
AssetFilename(index, clean_name) ==
    Format03d(index) \o <<"_">> \o clean_name \o PngSuffix

IsAdjustmentKind(kind) == Contains(Lower(KindChars[kind]), AdjustmentWord)

\* Variant: the pixel test is tried before the smart-object test.
_get_layer_type_PixelFirst(layer) ==
    IF HasAttr(layer.kind) /\ layer.kind[1] = "type" THEN "text"
    ELSE IF HasAttr(layer.has_pixels) /\ layer.has_pixels[1] THEN "pixel"
    ELSE IF HasAttr(layer.smart_object) /\ layer.smart_object[1] THEN "smart_object"
    ELSE IF HasAttr(layer.kind) /\ IsAdjustmentKind(layer.kind[1]) THEN "adjustment"
    ELSE "other"

_get_layer_type(layer) ==
    IF HasAttr(layer.kind) /\ layer.kind[1] = "type" THEN "text"
    ELSE IF HasAttr(layer.smart_object) /\ layer.smart_object[1] THEN "smart_object"
    ELSE IF HasAttr(layer.kind) /\ IsAdjustmentKind(layer.kind[1]) THEN "adjustment"
    ELSE IF HasAttr(layer.has_pixels) /\ layer.has_pixels[1] THEN "pixel"
    ELSE "other"

\* ---------------------------------------------------------- layer handles
\* A visible pixel layer with a raster, as the decoding library hands it out.
\* raises names the attribute access that throws for a corrupt layer entry.
\* visible is the layer's own flag, which the tools never read; is_visible is
\* what the handle's is_visible() returns.
BaseLayer ==
    [ name         |-> <<"a">>,
      visible      |-> TRUE,
      is_visible   |-> <<TRUE>>,
      kind         |-> <<"pixel">>,
      smart_object |-> <<>>,
      has_pixels   |-> <<TRUE>>,
      topil        |-> <<"image">>,
      text         |-> <<>>,
      bbox         |-> <<0, 0, 2, 1>>,
      opacity      |-> <<255>>,
      blend_mode   |-> <<"normal">>,
      raises       |-> "none" ]

TextLayer ==
    [BaseLayer EXCEPT !.kind = <<"type">>, !.has_pixels = <<FALSE>>,
                      !.text = << <<"H", "i">> >>]

SmartObjectLayer ==
    [BaseLayer EXCEPT !.kind = <<"smartobject">>, !.smart_object = <<TRUE>>]

AdjustmentLayer ==
    [BaseLayer EXCEPT !.kind = <<"adjustment">>, !.has_pixels = <<FALSE>>]

ShapeLayer ==
    [BaseLayer EXCEPT !.kind = <<"shape">>, !.has_pixels = <<FALSE>>]

GroupLayer ==
    [BaseLayer EXCEPT !.kind = <<"group">>, !.has_pixels = <<FALSE>>]

\* A layer shown in a hidden group: its own flag is set, is_visible() is not.
NestedLayer == [BaseLayer EXCEPT !.is_visible = <<FALSE>>]

\* A layer without a raster.
EmptyLayer == [BaseLayer EXCEPT !.topil = <<"none">>]

\* One layer of every kind, shown or hidden, with or without a raster.
DispatchLayers ==
    { [t EXCEPT !.visible = v, !.is_visible = <<v>>, !.topil = <<r>>] :
        t \in {TextLayer, SmartObjectLayer, AdjustmentLayer, BaseLayer, ShapeLayer},
        v \in BOOLEAN, r \in {"image", "none"} }

\* Layers whose rasterization or attribute access fails.
FaultyLayers ==
    { [BaseLayer EXCEPT !.raises = f] :
        f \in {"name", "is_visible", "kind", "bbox", "save", "opacity"} }
    \cup { [BaseLayer EXCEPT !.topil = <<"raise">>],
           [BaseLayer EXCEPT !.visible = FALSE, !.is_visible = <<FALSE>>,
                             !.raises = "kind"],
           [TextLayer EXCEPT !.topil = <<"none">>, !.text = <<>>],
           [TextLayer EXCEPT !.topil = <<"none">>, !.raises = "bbox"] }

\* Layers that differ in name, geometry or optional attributes only.
AttributeLayers ==
    { [BaseLayer EXCEPT !.name = n] : n \in {<<>>, <<"/">>, <<"_">>} }
    \cup { [BaseLayer EXCEPT !.bbox = b] : b \in {<<3, 4, 3, 4>>, <<5, 5, 2, 1>>} }
    \cup { [BaseLayer EXCEPT !.opacity = <<>>, !.blend_mode = <<>>, !.is_visible = <<>>],
           GroupLayer, NestedLayer }

LayerHandles == DispatchLayers \cup FaultyLayers \cup AttributeLayers

RECURSIVE SeqsUpTo(_, _)
SeqsUpTo(S, n) ==
    IF n = 0 THEN {<<>>}
    ELSE LET shorter == SeqsUpTo(S, n - 1)
         IN  shorter \cup {Append(s, x) : s \in {t \in shorter : Len(t) = n - 1}, x \in S}

\* Single layers that cover the classifier's predicates, the characters of a
\* layer name and the corners of a bounding box.
AttrValues(S) == {<<>>} \cup {<<v>> : v \in S}

ClassifierProbes ==
    { [BaseLayer EXCEPT !.kind = k, !.smart_object = s, !.has_pixels = p] :
        k \in AttrValues(Kinds), s \in AttrValues(BOOLEAN), p \in AttrValues(BOOLEAN) }

NameAlphabet == IllegalChars \cup {" ", ".", "a"}

\* n copies of the letter a.
Letters(n) == [k \in 1..n |-> "a"]

\* Names at the edges of strip() and of the length limit.
EdgeNames ==
    { <<".", " ", "a">>, <<"a", " ", ".">>, <<" ", ".", " ">>,
      Letters(MaxCleanLen), Letters(MaxCleanLen + 1),
      Letters(MaxCleanLen - 1) \o <<".", "a">>,
      Letters(MaxCleanLen - 1) \o <<" ", "a">> }

NameProbes ==
    { [BaseLayer EXCEPT !.name = n] :
        n \in SeqsUpTo(NameAlphabet, MaxNameLen) \cup EdgeNames }

Coords == (0 - 1)..MaxCoord

GeometryProbes ==
    { [BaseLayer EXCEPT !.bbox = <<l, t, r, b>>] :
        l \in Coords, t \in Coords, r \in Coords, b \in Coords }

\* Text layers by what topil() does, with and without text, on boxes with and
\* without extent.
TextProbes ==
    { [TextLayer EXCEPT !.topil = p, !.text = t, !.bbox = b] :
        p \in {<<>>, <<"none">>, <<"raise">>, <<"image">>},
        t \in {<<>>, << <<>> >>, << <<"H", "i">> >>},
        b \in {<<0, 0, 0, 0>>, <<1, 1, 0, 3>>, <<0, 0, 2, 1>>} }

Probes == ClassifierProbes \cup NameProbes \cup GeometryProbes \cup TextProbes

\* The handles that documents of several layers are built from: a hidden
\* layer without a raster is met as a single layer only.
SequencedLayers ==
    LayerHandles \ {l \in DispatchLayers : ~l.visible /\ l.topil = <<"none">>}

Documents ==
    SeqsUpTo(SequencedLayers, MaxLayers)
    \cup { <<l>> : l \in Probes \cup LayerHandles }
    \cup { [k \in 1..LongDocumentLen |-> IF k % 4 = 2 THEN EmptyLayer ELSE BaseLayer] }

\* ------------------------------------------------------------------ state
VARIABLES
    variant,               \* which tool runs: "basic" or "ai"
    export_invisible,      \* self.export_invisible
    expand_smart_objects,  \* self.expand_smart_objects
    all_layers,            \* self.all_layers
    images_dir,            \* file names written under images/
    i,                     \* enumerate index of the next layer
    results,               \* results
    exported_count,        \* basic: exported_count
    skipped_count,         \* basic: skipped_count
    layer_index,           \* basic: layer_index
    layer_stats,           \* ai: layer_stats
    console,               \* per-layer lines printed, as <<i, mark>>
    pc,                    \* position in main, __init__ and extract_all_layers
    caller,                \* "main" (command line) or "direct" (the class is used as is)
    psd_file,              \* what is at psd_path: "missing", "corrupt" or "psd"
    dirs,                  \* directories created by the run
    exit_code,             \* what main returned: <<>> until it returns
    init_error,            \* the exception __init__ raised: <<>> when none
    origin,                \* history: origin[k] is the enumerate index of results[k]
    calls                  \* history: calls[k] is what was invoked on the k-th visited layer

vars == <<variant, export_invisible, expand_smart_objects, all_layers, images_dir, i,
          results, exported_count, skipped_count, layer_index, layer_stats, console,
          pc, caller, psd_file, dirs, exit_code, init_error, origin, calls>>

process == <<caller, psd_file, dirs, exit_code, init_error>>

config == <<variant, export_invisible, expand_smart_objects, all_layers>>

\* What a rasterizer returns: None, the raster topil() handed out, or the
\* image drawn from the text with Image.new('RGBA', (width, height)).
NoImage == <<>>

BuiltIn == <<"topil">>

Drawn(width, height) == <<"drawn", width, height>>

ZeroStats ==
    [ total |-> 0, exported |-> 0, text_exported |-> 0, pixel_exported |-> 0,
      smart_exported |-> 0, other_exported |-> 0, skipped |-> 0 ]

\* output_dir and output_dir / "images", made by mkdir(parents=True).
OutputDirs == {"output", "output/images"}

\* _collect_psd_info of the AI tool calls is_visible() and reads kind on
\* every layer; the basic tool's __init__ touches no layer.
CollectRaises(tool, layers) ==
    /\ tool = "ai"
    /\ \E k \in 1..Len(layers) : layers[k].raises \in {"is_visible", "kind"}

\* The state in which __init__ has returned.
Init ==
    /\ variant \in {"basic", "ai"}
    /\ export_invisible \in BOOLEAN
    /\ expand_smart_objects \in BOOLEAN
    /\ all_layers \in Documents
    /\ ~CollectRaises(variant, all_layers)
    /\ caller = "direct"
    /\ psd_file = "psd"
    /\ dirs = OutputDirs
    /\ exit_code = <<>>
    /\ init_error = <<>>
    /\ images_dir = {}
    /\ i = 0
    /\ results = <<>>
    /\ exported_count = 0
    /\ skipped_count = 0
    /\ layer_index = 0
    /\ layer_stats = ZeroStats
    /\ console = <<>>
    /\ pc = "loop"
    /\ origin = <<>>
    /\ calls = <<>>

\* -------------------------------------------------------- layer processor
\* LayerProcessor.export_layer_image: the raster, or None; an exception of
\* topil() is caught inside and turned into None.
export_layer_image(layer) ==
    IF HasAttr(layer.topil) /\ layer.topil[1] = "image" THEN BuiltIn ELSE NoImage

\* LayerProcessor.rasterize_text_layer: the built-in raster, else an image
\* drawn from the text when there is text, else None.
\* Variant: the fallback image is drawn whether or not there is text.
rasterize_text_layer_DrawsAlways(layer) ==
    IF HasAttr(layer.topil) /\ layer.topil[1] = "raise" THEN NoImage
    ELSE IF HasAttr(layer.topil) /\ layer.topil[1] = "image" THEN BuiltIn
    ELSE IF layer.raises = "bbox" THEN NoImage
    ELSE Drawn(Max(layer.bbox[3] - layer.bbox[1], MinExtent),
               Max(layer.bbox[4] - layer.bbox[2], MinExtent))

rasterize_text_layer(layer) ==
    IF HasAttr(layer.topil) /\ layer.topil[1] = "raise" THEN NoImage
    ELSE IF HasAttr(layer.topil) /\ layer.topil[1] = "image" THEN BuiltIn
    ELSE IF GetAttr(layer.text, <<>>) = <<>> THEN NoImage
    ELSE IF layer.raises = "bbox" THEN NoImage
    ELSE Drawn(Max(layer.bbox[3] - layer.bbox[1], MinExtent),
               Max(layer.bbox[4] - layer.bbox[2], MinExtent))

\* ------------------------------------------------------- record creation
\* Variant: the layer's own flag is read instead of is_visible().
IsVisible_OwnFlag(layer) == layer.visible

IsVisible(layer) == IF HasAttr(layer.is_visible) THEN layer.is_visible[1] ELSE TRUE

\* Variant: width and height are not clamped.
Position_NoClamp(bbox) ==
    [ x      |-> bbox[1],
      y      |-> bbox[2],
      width  |-> bbox[3] - bbox[1],
      height |-> bbox[4] - bbox[2] ]

Position(bbox) ==
    [ x      |-> bbox[1],
      y      |-> bbox[2],
      width  |-> Max(bbox[3] - bbox[1], MinExtent),
      height |-> Max(bbox[4] - bbox[2], MinExtent) ]

\* The dictionary _create_layer_result returns in the basic tool
\* (absolute_path, which depends on the working directory, is left out; a
\* handle's blend_mode holds the text str() yields for it).
_create_layer_result(layer, index, layer_type) ==
    LET filename == AssetFilename(index, _sanitize_filename(layer.name))
    IN  [ index         |-> index,
          name          |-> layer.name,
          type          |-> layer_type,
          filename      |-> filename,
          relative_path |-> ImagesPrefix \o filename,
          position      |-> Position(layer.bbox),
          visibility    |-> [visible |-> IsVisible(layer), exported |-> TRUE],
          opacity       |-> GetAttr(layer.opacity, DefaultOpacity),
          blend_mode    |-> GetAttr(layer.blend_mode, "normal") ]

\* Variant: the text attributes are collected for every layer type.
_create_layer_result_ai_TextEverywhere(layer, index, layer_type) ==
    LET filename == AssetFilename(index, _sanitize_filename(layer.name))
    IN  [ index         |-> index,
          name          |-> layer.name,
          type          |-> layer_type,
          text_info     |-> <<GetAttr(layer.text, <<>>)>>,
          filename      |-> filename,
          relative_path |-> ImagesPrefix \o filename,
          position      |-> Position(layer.bbox),
          visibility    |-> [visible |-> IsVisible(layer), exported |-> TRUE],
          opacity       |-> GetAttr(layer.opacity, DefaultOpacity),
          blend_mode    |-> GetAttr(layer.blend_mode, "normal"),
          layer_bbox    |-> [left |-> layer.bbox[1], top |-> layer.bbox[2],
                             right |-> layer.bbox[3], bottom |-> layer.bbox[4]] ]

\* The dictionary _create_layer_result returns in the AI tool.
_create_layer_result_ai(layer, index, layer_type) ==
    LET filename == AssetFilename(index, _sanitize_filename(layer.name))
    IN  [ index         |-> index,
          name          |-> layer.name,
          type          |-> layer_type,
          text_info     |-> IF layer_type = "text"
                            THEN <<GetAttr(layer.text, <<>>)>> ELSE <<>>,
          filename      |-> filename,
          relative_path |-> ImagesPrefix \o filename,
          position      |-> Position(layer.bbox),
          visibility    |-> [visible |-> IsVisible(layer), exported |-> TRUE],
          opacity       |-> GetAttr(layer.opacity, DefaultOpacity),
          blend_mode    |-> GetAttr(layer.blend_mode, "normal"),
          layer_bbox    |-> [left |-> layer.bbox[1], top |-> layer.bbox[2],
                             right |-> layer.bbox[3], bottom |-> layer.bbox[4]] ]

\* image.save inside _create_layer_result: a failure is caught and printed there.
SaveImage(layer, dir, filename) ==
    IF layer.raises = "save" THEN dir ELSE dir \cup {filename}

\* layer.bbox is read first in _create_layer_result and layer.opacity after
\* the image was saved, both outside the try around image.save.
CreateRaises(layer) == layer.raises \in {"bbox", "opacity"}

\* The images directory when _create_layer_result is left by an exception.
SavedBeforeRaise(layer, dir, filename) ==
    IF layer.raises = "opacity" THEN SaveImage(layer, dir, filename) ELSE dir

\* The calls made on a layer whose _create_layer_result raised.
CreateErrorOps(layer, rasterizer) ==
    {"classify", rasterizer, "create"}
        \cup (IF layer.raises = "opacity" THEN {"save"} ELSE {})

\* hasattr(layer, 'kind') lets anything but AttributeError through.
ClassifyRaises(layer) == layer.raises = "kind"

\* ---------------------------------------------------------- the main loop
Layer == all_layers[i + 1]

Running == pc = "loop" /\ i < Len(all_layers)

\* `if not self.export_invisible and not is_visible`
\* Variant: the gate lets every hidden layer through.
GateSkips_Never(include_hidden, is_visible) == FALSE

\* Variant: the gate skips hidden layers whatever the configuration.
GateSkips_IgnoresConfig(include_hidden, is_visible) == ~is_visible

GateSkips(include_hidden, is_visible) == ~include_hidden /\ ~is_visible

\* Lines 180-183 (basic) and 247-250 (ai) run before the try block.
RaisesBeforeTry(layer) == layer.raises \in {"name", "is_visible"}

Enters == /\ Running
          /\ ~RaisesBeforeTry(Layer)
          /\ ~GateSkips(export_invisible, IsVisible(Layer))

\* Variant: the export index is not advanced after an export.
NextLayerIndex_Stale(index) == index

NextLayerIndex(index) == index + 1

\* What the rasterizer named in ops returned for the layer at hand.
Returned(ops) ==
    IF "rasterize_text_layer" \in ops THEN rasterize_text_layer(Layer)
    ELSE IF "export_layer_image" \in ops THEN export_layer_image(Layer)
    ELSE NoImage

Call(ops, layer_type) ==
    [ops |-> ops, layer_type |-> layer_type, image |-> Returned(ops)]

Bump(stats, field) == [stats EXCEPT ![field] = @ + 1]

\* An exception of name or is_visible() leaves extract_all_layers.
RaiseOutsideTry ==
    /\ Running
    /\ RaisesBeforeTry(Layer)
    /\ pc' = "raised"
    /\ layer_stats' = IF variant = "ai" THEN Bump(layer_stats, "total") ELSE layer_stats
    /\ calls' = Append(calls, Call({}, "-"))
    /\ UNCHANGED <<config, process, images_dir, i, results, exported_count, skipped_count,
                   layer_index, console, origin>>

\* The visibility gate: count the layer as skipped and continue.
SkipInvisible ==
    /\ Running
    /\ ~RaisesBeforeTry(Layer)
    /\ GateSkips(export_invisible, IsVisible(Layer))
    /\ IF variant = "basic"
       THEN /\ skipped_count' = skipped_count + 1
            /\ UNCHANGED layer_stats
       ELSE /\ layer_stats' = Bump(Bump(layer_stats, "total"), "skipped")
            /\ UNCHANGED skipped_count
    /\ i' = i + 1
    /\ calls' = Append(calls, Call({}, "-"))
    /\ UNCHANGED <<config, process, images_dir, results, exported_count, layer_index,
                   console, pc, origin>>

\* ------------------------------------------------------------ basic tool
\* Variant: the new record is put in front of the list.
BasicExport_Prepends(layer_type, raster) ==
    LET result == _create_layer_result(Layer, layer_index, layer_type)
    IN  /\ results' = <<result>> \o results
        /\ images_dir' = SaveImage(Layer, images_dir, result.filename)
        /\ layer_index' = NextLayerIndex(layer_index)
        /\ exported_count' = exported_count + 1
        /\ console' = Append(console, <<i, "ok">>)
        /\ origin' = <<i>> \o origin
        /\ calls' = Append(calls, Call({"classify", raster, "create", "save"}, layer_type))
        /\ i' = i + 1
        /\ UNCHANGED <<config, process, skipped_count, layer_stats, pc>>

BasicExport(layer_type, raster) ==
    LET result == _create_layer_result(Layer, layer_index, layer_type)
    IN  /\ results' = Append(results, result)
        /\ images_dir' = SaveImage(Layer, images_dir, result.filename)
        /\ layer_index' = NextLayerIndex(layer_index)
        /\ exported_count' = exported_count + 1
        /\ console' = Append(console, <<i, "ok">>)
        /\ origin' = Append(origin, i)
        /\ calls' = Append(calls, Call({"classify", raster, "create", "save"}, layer_type))
        /\ i' = i + 1
        /\ UNCHANGED <<config, process, skipped_count, layer_stats, pc>>

\* Variant: a skipped layer is not counted.
BasicSkip_NoCount(layer_type, ops, mark) ==
    /\ console' = Append(console, <<i, mark>>)
    /\ calls' = Append(calls, Call(ops, layer_type))
    /\ i' = i + 1
    /\ UNCHANGED <<config, process, images_dir, results, exported_count, skipped_count,
                   layer_index, layer_stats, pc, origin>>

BasicSkip(layer_type, ops, mark) ==
    /\ skipped_count' = skipped_count + 1
    /\ console' = Append(console, <<i, mark>>)
    /\ calls' = Append(calls, Call(ops, layer_type))
    /\ i' = i + 1
    /\ UNCHANGED <<config, process, images_dir, results, exported_count, layer_index,
                   layer_stats, pc, origin>>

\* Variant: the failed layer uses up an export index.
BasicCreateError_ConsumesIndex(layer_type, rasterizer) ==
    /\ skipped_count' = skipped_count + 1
    /\ layer_index' = layer_index + 1
    /\ images_dir' = SavedBeforeRaise(Layer, images_dir,
                        AssetFilename(layer_index, _sanitize_filename(Layer.name)))
    /\ console' = Append(console, <<i, "error">>)
    /\ calls' = Append(calls, Call(CreateErrorOps(Layer, rasterizer), layer_type))
    /\ i' = i + 1
    /\ UNCHANGED <<config, process, results, exported_count, layer_stats, pc, origin>>

\* `except Exception` after _create_layer_result raised.
BasicCreateError(layer_type, rasterizer) ==
    /\ skipped_count' = skipped_count + 1
    /\ images_dir' = SavedBeforeRaise(Layer, images_dir,
                        AssetFilename(layer_index, _sanitize_filename(Layer.name)))
    /\ console' = Append(console, <<i, "error">>)
    /\ calls' = Append(calls, Call(CreateErrorOps(Layer, rasterizer), layer_type))
    /\ i' = i + 1
    /\ UNCHANGED <<config, process, results, exported_count, layer_index, layer_stats,
                   pc, origin>>

BasicBranch(layer_type) ==
    /\ variant = "basic"
    /\ Enters
    /\ ~ClassifyRaises(Layer)
    /\ _get_layer_type(Layer) = layer_type

BasicText ==
    /\ BasicBranch("text")
    /\ IF rasterize_text_layer(Layer) # NoImage
       THEN ~CreateRaises(Layer) /\ BasicExport("text", "rasterize_text_layer")
       ELSE BasicSkip("text", {"classify", "rasterize_text_layer"}, "skip")

\* Variant: the expand switch is ignored and the composite is exported.
BasicSmartObject_IgnoresExpand ==
    /\ BasicBranch("smart_object")
    /\ IF export_layer_image(Layer) # NoImage
       THEN ~CreateRaises(Layer) /\ BasicExport("smart_object", "export_layer_image")
       ELSE BasicSkip("smart_object", {"classify", "export_layer_image"}, "skip")

BasicSmartObject ==
    /\ BasicBranch("smart_object")
    /\ IF expand_smart_objects
       THEN BasicSkip("smart_object", {"classify"}, "unsupported")
       ELSE IF export_layer_image(Layer) # NoImage
            THEN ~CreateRaises(Layer) /\ BasicExport("smart_object", "export_layer_image")
            ELSE BasicSkip("smart_object", {"classify", "export_layer_image"}, "skip")

BasicAdjustment ==
    /\ BasicBranch("adjustment")
    /\ BasicSkip("adjustment", {"classify"}, "skip")

BasicPixel ==
    /\ BasicBranch("pixel")
    /\ IF export_layer_image(Layer) # NoImage
       THEN ~CreateRaises(Layer) /\ BasicExport("pixel", "export_layer_image")
       ELSE BasicSkip("pixel", {"classify", "export_layer_image"}, "skip")

BasicOther ==
    /\ BasicBranch("other")
    /\ IF export_layer_image(Layer) # NoImage
       THEN ~CreateRaises(Layer) /\ BasicExport("other", "export_layer_image")
       ELSE BasicSkip("other", {"classify", "export_layer_image"}, "skip")

RasterizerOf(layer_type) ==
    IF layer_type = "text" THEN "rasterize_text_layer" ELSE "export_layer_image"

\* The raster the basic dispatch obtains for a layer of the given type.
BasicRaster(layer, layer_type, expand) ==
    CASE layer_type = "text" -> rasterize_text_layer(layer)
      [] layer_type = "smart_object" ->
            IF expand THEN NoImage ELSE export_layer_image(layer)
      [] layer_type = "adjustment" -> NoImage
      [] OTHER -> export_layer_image(layer)

\* `except Exception`: the classifier or _create_layer_result raised.
BasicExcept ==
    /\ variant = "basic"
    /\ Enters
    /\ \/ /\ ClassifyRaises(Layer)
          /\ BasicSkip("-", {"classify"}, "error")
       \/ /\ ~ClassifyRaises(Layer)
          /\ CreateRaises(Layer)
          /\ BasicRaster(Layer, _get_layer_type(Layer), expand_smart_objects) # NoImage
          /\ BasicCreateError(_get_layer_type(Layer), RasterizerOf(_get_layer_type(Layer)))

\* --------------------------------------------------------------- AI tool
\* Variant: the counter of the layer's kind is not advanced.
AIExport_NoKindCount(layer_type, raster, counter) ==
    LET result == _create_layer_result_ai(Layer, Len(results), layer_type)
        classified == _get_layer_type(Layer)
    IN  /\ results' = Append(results, result)
        /\ images_dir' = SaveImage(Layer, images_dir, result.filename)
        /\ layer_stats' = Bump(Bump(layer_stats, "total"), "exported")
        /\ console' = Append(console, <<i, IF IsVisible(Layer) THEN "ok" ELSE "ok_hidden">>)
        /\ origin' = Append(origin, i)
        /\ calls' = Append(calls, Call({"classify", raster, "create", "save"}, classified))
        /\ i' = i + 1
        /\ UNCHANGED <<config, process, exported_count, skipped_count, layer_index, pc>>

\* `if result:` ... `else:` after the dispatch, lines 286-294.
AIExport(layer_type, raster, counter) ==
    LET result == _create_layer_result_ai(Layer, Len(results), layer_type)
        classified == _get_layer_type(Layer)
    IN  /\ results' = Append(results, result)
        /\ images_dir' = SaveImage(Layer, images_dir, result.filename)
        /\ layer_stats' = Bump(Bump(Bump(layer_stats, "total"), counter), "exported")
        /\ console' = Append(console, <<i, IF IsVisible(Layer) THEN "ok" ELSE "ok_hidden">>)
        /\ origin' = Append(origin, i)
        /\ calls' = Append(calls, Call({"classify", raster, "create", "save"}, classified))
        /\ i' = i + 1
        /\ UNCHANGED <<config, process, exported_count, skipped_count, layer_index, pc>>

\* Variant: a skipped layer is counted in total only.
AISkip_NoCount(layer_type, ops, mark) ==
    /\ layer_stats' = Bump(layer_stats, "total")
    /\ console' = Append(console, <<i, mark>>)
    /\ calls' = Append(calls, Call(ops, layer_type))
    /\ i' = i + 1
    /\ UNCHANGED <<config, process, images_dir, results, exported_count, skipped_count,
                   layer_index, pc, origin>>

AISkip(layer_type, ops, mark) ==
    /\ layer_stats' = Bump(Bump(layer_stats, "total"), "skipped")
    /\ console' = Append(console, <<i, mark>>)
    /\ calls' = Append(calls, Call(ops, layer_type))
    /\ i' = i + 1
    /\ UNCHANGED <<config, process, images_dir, results, exported_count, skipped_count,
                   layer_index, pc, origin>>

\* `except Exception` after _create_layer_result raised.
AICreateError(layer_type, rasterizer) ==
    /\ layer_stats' = Bump(Bump(layer_stats, "total"), "skipped")
    /\ images_dir' = SavedBeforeRaise(Layer, images_dir,
                        AssetFilename(Len(results), _sanitize_filename(Layer.name)))
    /\ console' = Append(console, <<i, "error">>)
    /\ calls' = Append(calls, Call(CreateErrorOps(Layer, rasterizer), layer_type))
    /\ i' = i + 1
    /\ UNCHANGED <<config, process, results, exported_count, skipped_count, layer_index,
                   pc, origin>>

AISkipMark == IF IsVisible(Layer) THEN "skip" ELSE "skip_hidden"

AIBranch(layer_types) ==
    /\ variant = "ai"
    /\ Enters
    /\ ~ClassifyRaises(Layer)
    /\ _get_layer_type(Layer) \in layer_types

AIText ==
    /\ AIBranch({"text"})
    /\ IF rasterize_text_layer(Layer) # NoImage
       THEN ~CreateRaises(Layer)
            /\ AIExport("text", "rasterize_text_layer", "text_exported")
       ELSE AISkip("text", {"classify", "rasterize_text_layer"}, AISkipMark)

AISmartObject ==
    /\ AIBranch({"smart_object"})
    /\ IF expand_smart_objects
       THEN AISkip("smart_object", {"classify"}, AISkipMark)
       ELSE IF export_layer_image(Layer) # NoImage
            THEN ~CreateRaises(Layer)
                 /\ AIExport("smart_object", "export_layer_image", "smart_exported")
            ELSE AISkip("smart_object", {"classify", "export_layer_image"}, AISkipMark)

AIPixel ==
    /\ AIBranch({"pixel"})
    /\ IF export_layer_image(Layer) # NoImage
       THEN ~CreateRaises(Layer)
            /\ AIExport("pixel", "export_layer_image", "pixel_exported")
       ELSE AISkip("pixel", {"classify", "export_layer_image"}, AISkipMark)

\* The final `else:` takes every remaining type, 'adjustment' included.
AIOther ==
    /\ AIBranch({"adjustment", "other"})
    /\ IF export_layer_image(Layer) # NoImage
       THEN ~CreateRaises(Layer)
            /\ AIExport("other", "export_layer_image", "other_exported")
       ELSE AISkip(_get_layer_type(Layer), {"classify", "export_layer_image"}, AISkipMark)

\* The type the AI dispatch writes into the record of a layer it classified.
AIRecordType(layer_type) ==
    IF layer_type \in {"text", "smart_object", "pixel"} THEN layer_type ELSE "other"

AIRaster(layer, layer_type, expand) ==
    CASE layer_type = "text" -> rasterize_text_layer(layer)
      [] layer_type = "smart_object" ->
            IF expand THEN NoImage ELSE export_layer_image(layer)
      [] OTHER -> export_layer_image(layer)

AIExcept ==
    /\ variant = "ai"
    /\ Enters
    /\ \/ /\ ClassifyRaises(Layer)
          /\ AISkip("-", {"classify"}, "error")
       \/ /\ ~ClassifyRaises(Layer)
          /\ CreateRaises(Layer)
          /\ AIRaster(Layer, _get_layer_type(Layer), expand_smart_objects) # NoImage
          /\ AICreateError(_get_layer_type(Layer), RasterizerOf(_get_layer_type(Layer)))

\* Variant: the list is put in reverse order before it is returned.
Return_Reverses ==
    /\ pc = "loop"
    /\ i = Len(all_layers)
    /\ pc' = "returned"
    /\ results' = [k \in 1..Len(results) |-> results[Len(results) + 1 - k]]
    /\ UNCHANGED <<config, process, images_dir, i, exported_count, skipped_count,
                   layer_index, layer_stats, console, origin, calls>>

\* `return results` once the for loop is exhausted.
Return ==
    /\ pc = "loop"
    /\ i = Len(all_layers)
    /\ pc' = "returned"
    /\ UNCHANGED <<config, process, images_dir, i, results, exported_count, skipped_count,
                   layer_index, layer_stats, console, origin, calls>>

Next ==
    \/ RaiseOutsideTry
    \/ SkipInvisible
    \/ BasicText
    \/ BasicSmartObject
    \/ BasicAdjustment
    \/ BasicPixel
    \/ BasicOther
    \/ BasicExcept
    \/ AIText
    \/ AISmartObject
    \/ AIPixel
    \/ AIOther
    \/ AIExcept
    \/ Return

Spec == Init /\ [][Next]_vars

\* The interpreter runs the loop: a step that can be taken is taken.
FairSpec == Spec /\ WF_vars(Next)

\* ------------------------------------------------- main and the constructor
\* Documents a whole run is started on.
MainDocuments == SeqsUpTo(LayerHandles, MaxMainLayers)

\* The process starts in main (an input path on the command line) or with a
\* direct call of the constructor; all_layers holds the layers the file at
\* psd_path decodes to.
MainInit ==
    /\ variant \in {"basic", "ai"}
    /\ export_invisible \in BOOLEAN
    /\ expand_smart_objects \in BOOLEAN
    /\ caller \in {"main", "direct"}
    /\ psd_file \in {"missing", "corrupt", "psd"}
    /\ all_layers \in (IF psd_file = "psd" THEN MainDocuments ELSE {<<>>})
    /\ pc = (IF caller = "main" THEN "main" ELSE "construct")
    /\ dirs = {}
    /\ exit_code = <<>>
    /\ init_error = <<>>
    /\ images_dir = {}
    /\ i = 0
    /\ results = <<>>
    /\ exported_count = 0
    /\ skipped_count = 0
    /\ layer_index = 0
    /\ layer_stats = ZeroStats
    /\ console = <<>>
    /\ origin = <<>>
    /\ calls = <<>>

\* main: `if not Path(args.input).exists(): ... return 1`.
MainCheck ==
    /\ pc = "main"
    /\ IF psd_file = "missing"
       THEN pc' = "exited" /\ exit_code' = <<1>>
       ELSE pc' = "construct" /\ UNCHANGED exit_code
    /\ UNCHANGED <<config, caller, psd_file, dirs, init_error, images_dir, i, results,
                   exported_count, skipped_count, layer_index, layer_stats, console,
                   origin, calls>>

\* Variant: the directories are made before the path is tested.
__init___MkdirFirst ==
    /\ pc = "construct"
    /\ dirs' = dirs \cup OutputDirs
    /\ IF psd_file = "missing"
       THEN pc' = "init_raised" /\ init_error' = <<"FileNotFoundError">>
       ELSE IF psd_file = "corrupt"
            THEN pc' = "init_raised" /\ init_error' = <<"DecodeError">>
            ELSE IF CollectRaises(variant, all_layers)
                 THEN pc' = "init_raised" /\ init_error' = <<"Exception">>
                 ELSE pc' = "loop" /\ UNCHANGED init_error
    /\ UNCHANGED <<config, caller, psd_file, exit_code, images_dir, i, results,
                   exported_count, skipped_count, layer_index, layer_stats, console,
                   origin, calls>>

\* PSDWebExtractor.__init__: the path test, mkdir, PSDImage.open and (ai)
\* _collect_psd_info, in this order.
__init__ ==
    /\ pc = "construct"
    /\ IF psd_file = "missing"
       THEN /\ pc' = "init_raised"
            /\ init_error' = <<"FileNotFoundError">>
            /\ UNCHANGED dirs
       ELSE /\ dirs' = dirs \cup OutputDirs
            /\ IF psd_file = "corrupt"
               THEN pc' = "init_raised" /\ init_error' = <<"DecodeError">>
               ELSE IF CollectRaises(variant, all_layers)
                    THEN pc' = "init_raised" /\ init_error' = <<"Exception">>
                    ELSE pc' = "loop" /\ UNCHANGED init_error
    /\ UNCHANGED <<config, caller, psd_file, exit_code, images_dir, i, results,
                   exported_count, skipped_count, layer_index, layer_stats, console,
                   origin, calls>>

\* main: `except Exception as e: ... return 1`.
MainExcept ==
    /\ caller = "main"
    /\ pc \in {"init_raised", "raised"}
    /\ pc' = "exited"
    /\ exit_code' = <<1>>
    /\ UNCHANGED <<config, caller, psd_file, dirs, init_error, images_dir, i, results,
                   exported_count, skipped_count, layer_index, layer_stats, console,
                   origin, calls>>

\* main: the metadata files are written and 0 is returned.
MainReturn ==
    /\ caller = "main"
    /\ pc = "returned"
    /\ pc' = "exited"
    /\ exit_code' = <<0>>
    /\ UNCHANGED <<config, caller, psd_file, dirs, init_error, images_dir, i, results,
                   exported_count, skipped_count, layer_index, layer_stats, console,
                   origin, calls>>

MainNext ==
    \/ MainCheck
    \/ __init__
    \/ MainExcept
    \/ MainReturn
    \/ Next

MainSpec == MainInit /\ [][MainNext]_vars

\* ------------------------------------------------------- derived counters
Exported == IF variant = "basic" THEN exported_count ELSE layer_stats.exported

Skipped == IF variant = "basic" THEN skipped_count ELSE layer_stats.skipped

TypeOK ==
    /\ pc \in {"main", "construct", "init_raised", "loop", "returned", "raised", "exited"}
    /\ i \in 0..Len(all_layers)
    /\ Len(results) = Len(origin)
    /\ Len(calls) \in {i, i + 1}

\* ================================================================ claims
Range(f) == {f[k] : k \in DOMAIN f}

\* The layer a record was made from.
Source(k) == all_layers[origin[k] + 1]

\* The layer read before the try block without an exception.
ReachesGate(layer) == ~RaisesBeforeTry(layer)

DenseIndices(recs) == \A k \in 1..Len(recs) : recs[k].index = k - 1

\* C1: the index fields of the records, in emission order, are 0, 1, ..., N-1:
\* the k-th record carries index k (zero-based), in both tools.
C1_ExportIndexDense == DenseIndices(results)

C1_Witness ==
    /\ pc = "returned"
    /\ Len(results) >= 2
    /\ origin[2] > origin[1] + 1

\* C2: a layer whose image.save fails yields no record: every record's file
\* was written and no record comes from a layer whose save raised.
C2_SaveFailureIsSkip ==
    \A k \in 1..Len(results) :
        /\ Source(k).raises # "save"
        /\ results[k].filename \in images_dir

\* C3: no error raised while processing one layer aborts the run: the loop is
\* never left by an exception.
C3_NoLayerErrorAborts == pc # "raised"

\* C4: a layer classified 'adjustment' is never rasterized and never yields a
\* record, in both tools.
C4_AdjustmentAlwaysSkipped ==
    \A k \in 1..Len(calls) :
        calls[k].layer_type = "adjustment" =>
            /\ calls[k].ops = {"classify"}
            /\ (k - 1) \notin Range(origin)

\* C5: with export_invisible disabled no record has visible = FALSE, and a step
\* on a layer whose flag is FALSE only counts it as skipped: nothing is
\* classified or rasterized, results and the export index stay as they are.
C5_GateStep ==
    /\ ~export_invisible => \A k \in 1..Len(results') : results'[k].visibility.visible
    /\ ( /\ Running
         /\ ReachesGate(Layer)
         /\ ~export_invisible
         /\ ~IsVisible(Layer) )
       => /\ Skipped' = Skipped + 1
          /\ Exported' = Exported
          /\ results' = results
          /\ layer_index' = layer_index
          /\ images_dir' = images_dir
          /\ calls' = Append(calls, Call({}, "-"))
          /\ i' = i + 1

C5_VisibilityGate == [][C5_GateStep]_vars

C5_Witness ==
    /\ pc = "returned"
    /\ ~export_invisible
    /\ Len(results) >= 1
    /\ \E k \in 1..Len(calls) :
          /\ ~IsVisible(all_layers[k])
          /\ all_layers[k].topil = <<"image">>
          /\ calls[k].ops = {}

\* What the dispatch of the running tool does with a layer, whatever its
\* visibility flag: TRUE when it ends in an export.
DispatchExports(layer) ==
    /\ ~ClassifyRaises(layer)
    /\ ~CreateRaises(layer)
    /\ NoImage # (IF variant = "basic"
                  THEN BasicRaster(layer, _get_layer_type(layer), expand_smart_objects)
                  ELSE AIRaster(layer, _get_layer_type(layer), expand_smart_objects))

\* C6: with export_invisible enabled a hidden layer passes the gate and is
\* dispatched as its visible twin would be; its record has visible = FALSE and
\* the indices of the run stay 0..N-1.
C6_HiddenLayersExported ==
    export_invisible =>
        /\ \A k \in 1..Len(calls) :
              (ReachesGate(all_layers[k]) /\ ~IsVisible(all_layers[k])) =>
                  /\ "classify" \in calls[k].ops
                  /\ ((k - 1) \in Range(origin)) <=>
                        DispatchExports([all_layers[k] EXCEPT !.is_visible = <<TRUE>>])
        /\ \A k \in 1..Len(results) :
              results[k].visibility.visible = IsVisible(Source(k))
        /\ DenseIndices(results)

C6_Witness ==
    /\ pc = "returned"
    /\ export_invisible
    /\ Len(results) = 2
    /\ ~results[1].visibility.visible
    /\ results[2].visibility.visible

\* The predicates of the classifier, by the kind each one selects.
KindPredicates(layer) ==
    [ text         |-> layer.kind = <<"type">>,
      smart_object |-> layer.smart_object = <<TRUE>>,
      adjustment   |-> layer.kind \in {<<"adjustment">>, <<"HueAdjustment">>},
      pixel        |-> layer.has_pixels = <<TRUE>> ]

Priority == <<"text", "smart_object", "adjustment", "pixel">>

\* C7: the classifier returns exactly one kind: the first of text,
\* smart_object, adjustment, pixel whose predicate holds, and other when none
\* holds.
C7_ClassifierPriority ==
    \A k \in 1..Len(calls) :
        ("classify" \in calls[k].ops /\ ~ClassifyRaises(all_layers[k])) =>
            LET kind == calls[k].layer_type
                holds == KindPredicates(all_layers[k])
            IN  /\ kind \in Range(Priority) \cup {"other"}
                /\ kind = "other" <=> \A n \in 1..Len(Priority) : ~holds[Priority[n]]
                /\ \A n \in 1..Len(Priority) :
                      kind = Priority[n] <=>
                          /\ holds[Priority[n]]
                          /\ \A m \in 1..(n - 1) : ~holds[Priority[m]]

C7_Witness ==
    \E k \in 1..Len(calls) :
        /\ all_layers[k].smart_object = <<TRUE>>
        /\ all_layers[k].has_pixels = <<TRUE>>
        /\ calls[k].layer_type = "smart_object"

\* C8: every record has x, y = left, top of its layer's bbox, width =
\* max(right - left, 1) >= 1 and height = max(bottom - top, 1) >= 1.
C8_PositionClamped ==
    \A k \in 1..Len(results) :
        LET b == Source(k).bbox
            p == results[k].position
        IN  /\ p.x = b[1]
            /\ p.y = b[2]
            /\ p.width >= 1
            /\ p.height >= 1
            /\ p.width = (IF b[3] - b[1] > 1 THEN b[3] - b[1] ELSE 1)
            /\ p.height = (IF b[4] - b[2] > 1 THEN b[4] - b[2] ELSE 1)

C8_Witness ==
    \E k \in 1..Len(results) :
        /\ Source(k).bbox[3] < Source(k).bbox[1]
        /\ Source(k).bbox[4] = Source(k).bbox[2]
        /\ results[k].position.width = 1
        /\ results[k].position.height = 1

\* C9: any two distinct records of a run have different filename and
\* relative_path values, whatever their layer names.
C9_FilenamesUnique ==
    \A j \in 1..Len(results) : \A k \in 1..Len(results) :
        j # k => /\ results[j].filename # results[k].filename
                 /\ results[j].relative_path # results[k].relative_path

C9_Witness ==
    /\ pc = "returned"
    /\ \E j \in 1..Len(results) : \E k \in 1..Len(results) :
          /\ j # k
          /\ results[j].name = results[k].name

RECURSIVE ParseDecimal(_)
ParseDecimal(s) ==
    IF s = <<>> THEN 0
    ELSE 10 * ParseDecimal(SubSeq(s, 1, Len(s) - 1))
         + (CHOOSE d \in 0..9 : DigitChars[d + 1] = s[Len(s)])

\* C10: a record's filename is its index as three zero-padded digits, '_', the
\* sanitized layer name and '.png', and the sanitized name has none of the
\* characters < > : " / \ | ? *.
C10_FilenameFormat ==
    \A k \in 1..Len(results) :
        LET f == results[k].filename
            n == Len(f)
            body == SubSeq(f, PadWidth + 2, n - Len(PngSuffix))
        IN  /\ n >= PadWidth + 1 + Len(PngSuffix)
            /\ \A d \in 1..PadWidth : f[d] \in Range(DigitChars)
            /\ ParseDecimal(SubSeq(f, 1, PadWidth)) = results[k].index
            /\ f[PadWidth + 1] = "_"
            /\ SubSeq(f, n - Len(PngSuffix) + 1, n) = PngSuffix
            /\ body = _sanitize_filename(results[k].name)
            /\ \A c \in 1..Len(body) : body[c] \notin IllegalChars

C10_Witness ==
    \E k \in 1..Len(results) :
        /\ results[k].name = <<"\\", "*">>
        /\ results[k].filename = <<"0", "0", "0", "_", "_", "_", ".", "p", "n", "g">>

\* The cleaned layer name inside a file name (indices below 1000).
CleanPart(f) == SubSeq(f, PadWidth + 2, Len(f) - Len(PngSuffix))

\* C11: the cleaned name has no leading or trailing whitespace, does not end
\* in a dot and is at most 50 characters long.
C11_CleanNameTrimmed ==
    \A k \in 1..Len(results) :
        LET clean == CleanPart(results[k].filename)
        IN  /\ Len(clean) <= MaxCleanLen
            /\ clean # <<>> =>
                  /\ clean[1] \notin Whitespace
                  /\ clean[Len(clean)] \notin Whitespace \cup {"."}

\* C12: a name that is empty after cleaning is replaced by a placeholder: no
\* file name has an empty name part.
C12_EmptyNameFallback ==
    \A k \in 1..Len(results) : CleanPart(results[k].filename) # <<>>

\* The entry the step under way adds to calls.
LastCall == calls'[Len(calls')]

\* The step appends exactly one record, of the given type.
AppendsOne(layer_type) ==
    /\ Len(results') = Len(results) + 1
    /\ SubSeq(results', 1, Len(results)) = results
    /\ results'[Len(results')].type = layer_type
    /\ Exported' = Exported + 1
    /\ Skipped' = Skipped

\* The step leaves the records alone and counts one more skipped layer.
SkipsOne ==
    /\ results' = results
    /\ layer_index' = layer_index
    /\ Exported' = Exported
    /\ Skipped' = Skipped + 1

\* C13: a step on a layer classified smart_object skips it without
\* rasterizing when expand_smart_objects is set; otherwise it rasterizes the
\* layer and, given an image (and no error in record creation), appends one
\* record of type smart_object.
C13_SmartObjectStep ==
    ( /\ Enters
      /\ ~ClassifyRaises(Layer)
      /\ Layer.kind # <<"type">>
      /\ Layer.smart_object = <<TRUE>> )
    => /\ LastCall.layer_type = "smart_object"
       /\ IF expand_smart_objects
          THEN LastCall.ops = {"classify"} /\ SkipsOne
          ELSE /\ "export_layer_image" \in LastCall.ops
               /\ (Layer.topil = <<"image">> /\ ~CreateRaises(Layer))
                     => AppendsOne("smart_object")

RasterFails(layer) ==
    IF layer.kind = <<"type">>
    THEN \/ layer.topil = <<"raise">>
         \/ /\ layer.topil # <<"image">>
            /\ (GetAttr(layer.text, <<>>) = <<>> \/ layer.raises = "bbox")
    ELSE layer.topil # <<"image">>

\* C14: a step that rasterizes a layer and gets no image counts the layer as
\* skipped, appends no record, consumes no export index and goes on to the
\* next layer.
C14_NoImageStep ==
    ( /\ Enters
      /\ ~ClassifyRaises(Layer)
      /\ LastCall.ops \cap {"export_layer_image", "rasterize_text_layer"} # {}
      /\ RasterFails(Layer) )
    => /\ SkipsOne
       /\ "create" \notin LastCall.ops
       /\ i' = i + 1
       /\ pc' = "loop"

C14_NoImageIsSkip == [][C14_NoImageStep]_vars

C14_Witness ==
    /\ pc = "returned"
    /\ Len(all_layers) = 2
    /\ all_layers[1].topil = <<"raise">>
    /\ Skipped = 1
    /\ origin = <<1>>

\* C15: every visited layer is counted once, as exported or as skipped; when
\* the run has finished, exported + skipped = total = number of layers and
\* exported = number of records.
C15_StatsPartition ==
    /\ Exported + Skipped = i
    /\ Exported = Len(results)
    /\ pc = "returned" =>
          /\ Exported + Skipped = Len(all_layers)
          /\ variant = "ai" => layer_stats.total = Len(all_layers)

C15_Witness ==
    /\ pc = "returned"
    /\ Len(all_layers) = 2
    /\ Exported = 1
    /\ Skipped = 1

\* C17: no record is made from a group layer.
C17_GroupsNotEmitted ==
    \A k \in 1..Len(results) : Source(k).kind # <<"group">>

C19_OpacityPercent ==
    \A k \in 1..Len(results) : results[k].opacity \in 0..100

\* C20 as stated: in both tools a text record holds the layer's text and every
\* other record holds none.
C20_TextOnTextRecords ==
    \A k \in 1..Len(results) :
        IF results[k].type = "text"
        THEN /\ "text_info" \in DOMAIN results[k]
             /\ results[k].text_info = <<GetAttr(Source(k).text, <<>>)>>
        ELSE \/ "text_info" \notin DOMAIN results[k]
             \/ results[k].text_info = <<>>

\* C20: in the AI tool a text record's text_info holds the layer's text and
\* every other record's text_info is empty; records of the basic tool have no
\* text content at all.
C20_TextOnAITextRecords ==
    \A k \in 1..Len(results) :
        IF variant = "ai"
        THEN /\ "text_info" \in DOMAIN results[k]
             /\ results[k].text_info =
                   (IF results[k].type = "text"
                    THEN <<GetAttr(Source(k).text, <<>>)>> ELSE <<>>)
        ELSE "text_info" \notin DOMAIN results[k]

C20_Witness ==
    /\ variant = "ai"
    /\ Len(results) = 2
    /\ results[1].type = "text"
    /\ results[1].text_info = << <<"H", "i">> >>
    /\ results[2].type = "pixel"
    /\ results[2].text_info = <<>>

\* C21: every run of extract_all_layers ends, and when it has ended every
\* layer of the document has been visited once, in one pass.
C21_TerminatesAllVisited ==
    <>( /\ pc = "returned"
        /\ i = Len(all_layers)
        /\ Len(calls) = Len(all_layers) )

\* C22: the records are an order-preserving subsequence of the layer list: a
\* record later in the list has the larger export index and comes from a later
\* layer, every record carries the name of its layer, and no layer is visited
\* before the one in front of it.
C22_TraversalOrder ==
    /\ \A j \in 1..Len(results) : \A k \in 1..Len(results) :
          /\ j < k => /\ results[j].index < results[k].index
                      /\ origin[j] < origin[k]
          /\ results[j].index < results[k].index => origin[j] < origin[k]
    /\ \A k \in 1..Len(results) :
          /\ origin[k] < i
          /\ results[k].name = Source(k).name
    /\ \A k \in 1..Len(console) :
          /\ console[k][1] < i
          /\ \A j \in 1..(k - 1) : console[j][1] < console[k][1]

C22_Witness ==
    /\ pc = "returned"
    /\ variant = "basic"
    /\ Len(results) >= 3
    /\ origin[1] = 0
    /\ origin[2] = 2
    /\ origin[3] = 3

\* C23: with no file at psd_path the run fails before anything else happens:
\* no directory is created and no layer is processed; __init__ ends with
\* FileNotFoundError, and main ends by returning 1.
C23_MissingFileFailsFirst ==
    psd_file = "missing" =>
        /\ dirs = {}
        /\ images_dir = {}
        /\ calls = <<>>
        /\ results = <<>>
        /\ i = 0
        /\ pc \in {"main", "construct", "init_raised", "exited"}
        /\ init_error \in {<<>>, <<"FileNotFoundError">>}
        /\ (caller = "direct" /\ pc # "construct") =>
              pc = "init_raised" /\ init_error = <<"FileNotFoundError">>
        /\ (caller = "main" /\ pc # "main") =>
              pc = "exited" /\ exit_code = <<1>>

C23_Witness ==
    /\ psd_file = "missing"
    /\ pc = "init_raised"
    /\ init_error = <<"FileNotFoundError">>
    /\ dirs = {}

\* Why the k-th visited layer gave no record, read from the history.
OutcomeOf(k) ==
    IF (k - 1) \in Range(origin) THEN "exported"
    ELSE IF k > i THEN "aborted"
    ELSE IF calls[k].ops = {} THEN "invisible"
    ELSE IF calls[k].layer_type = "-" \/ "create" \in calls[k].ops THEN "error"
    ELSE IF calls[k].ops # {"classify"} THEN "no_image"
    ELSE IF calls[k].layer_type = "adjustment" THEN "adjustment"
    ELSE "smart_object"

SkipReasons == {"invisible", "adjustment", "smart_object", "no_image", "error"}

SkippedFor(reason) == Cardinality({k \in 1..Len(calls) : OutcomeOf(k) = reason})

\* The counters the running tool keeps.
RunningCounts ==
    IF variant = "basic"
    THEN {exported_count, skipped_count, layer_index}
    ELSE Range(layer_stats)

\* C24: the run keeps a count per skip reason: for every reason, the number of
\* layers skipped for it so far is the value of one of the tool's counters.
C24_SkipsCountedByReason ==
    \A reason \in SkipReasons : SkippedFor(reason) \in RunningCounts

\* The counter of layer_stats kept for each record type.
KindCounter ==
    [ text         |-> "text_exported",
      pixel        |-> "pixel_exported",
      smart_object |-> "smart_exported",
      other        |-> "other_exported" ]

RecordsOfType(t) == Cardinality({k \in 1..Len(results) : results[k].type = t})

\* C25: in the AI tool, between loop iterations, the four per-kind counters
\* add up to exported, exported is the number of records, and each per-kind
\* counter is the number of records of its type.
C25_KindCountersMatch ==
    variant = "ai" =>
        /\ layer_stats.text_exported + layer_stats.pixel_exported
             + layer_stats.smart_exported + layer_stats.other_exported
           = layer_stats.exported
        /\ layer_stats.exported = Len(results)
        /\ \A k \in 1..Len(results) : results[k].type \in DOMAIN KindCounter
        /\ \A t \in DOMAIN KindCounter : layer_stats[KindCounter[t]] = RecordsOfType(t)

C25_Witness ==
    /\ variant = "ai"
    /\ pc = "returned"
    /\ layer_stats.text_exported = 1
    /\ layer_stats.other_exported = 1
    /\ layer_stats.skipped = 0
    /\ RecordsOfType("text") = 1
    /\ RecordsOfType("other") = 1

\* C26: rasterize_text_layer returns the built-in raster when topil() yields
\* one; otherwise an image of max(w, 1) x max(h, 1) drawn from the text, and
\* only when there is text; with no raster and no text it returns None, and
\* the layer is skipped without a record and without an error line.
C26_TextRaster ==
    \A k \in 1..Len(calls) :
        "rasterize_text_layer" \in calls[k].ops =>
            LET layer == all_layers[k]
                image == calls[k].image
                w == layer.bbox[3] - layer.bbox[1]
                h == layer.bbox[4] - layer.bbox[2]
                text == IF layer.text = <<>> THEN <<>> ELSE layer.text[1]
            IN  /\ layer.topil = <<"image">> => image = <<"topil">>
                /\ (layer.topil # <<"image">> /\ image # <<>>) =>
                      /\ text # <<>>
                      /\ image = <<"drawn", IF w > 1 THEN w ELSE 1, IF h > 1 THEN h ELSE 1>>
                /\ ( /\ layer.topil \in {<<>>, <<"none">>}
                     /\ text # <<>>
                     /\ layer.raises # "bbox" ) => image # <<>>
                /\ (layer.topil # <<"image">> /\ text = <<>>) =>
                      /\ image = <<>>
                      /\ (k - 1) \notin Range(origin)
                      /\ OutcomeOf(k) = "no_image"
                      /\ \A j \in 1..Len(console) :
                            console[j][1] = k - 1 => console[j][2] # "error"

C26_Witness ==
    /\ pc = "returned"
    /\ Len(calls) = 1
    /\ all_layers[1].topil = <<"none">>
    /\ all_layers[1].text = << <<"H", "i">> >>
    /\ all_layers[1].bbox = <<1, 1, 0, 3>>
    /\ calls[1].image = <<"drawn", 1, 2>>
    /\ Len(results) = 1

\* The step prints the error line of the per-layer handler.
CatchesError ==
    /\ Len(console') = Len(console) + 1
    /\ console'[Len(console')] = <<i, "error">>

\* C27: a step in which the per-layer handler catches an exception adds one to
\* skipped and leaves the records, the exported counter, the per-kind counters
\* and the next export index as they were; the loop goes on, and no record is
\* ever made from a layer whose error line was printed.
C27_ErrorStep ==
    /\ CatchesError =>
          /\ SkipsOne
          /\ Len(results') = Len(results)
          /\ \A t \in DOMAIN KindCounter :
                layer_stats'[KindCounter[t]] = layer_stats[KindCounter[t]]
          /\ variant = "ai" => layer_stats'.total = layer_stats.total + 1
          /\ i' = i + 1
          /\ pc' = "loop"
    /\ \A j \in 1..Len(console') :
          console'[j][2] = "error" => console'[j][1] \notin Range(origin')

C27_ErrorIsOneSkip == [][C27_ErrorStep]_vars

C27_Witness ==
    /\ pc = "returned"
    /\ Len(all_layers) = 2
    /\ all_layers[1].raises = "opacity"
    /\ console[1] = <<0, "error">>
    /\ Skipped = 1
    /\ origin = <<1>>
    /\ results[1].index = 0

\* C28: the record list only grows at its end: every step leaves it as it
\* was or adds one record after the ones it had, which stay as they were.
C28_AppendStep ==
    \/ results' = results
    \/ /\ Len(results') = Len(results) + 1
       /\ \A k \in 1..Len(results) : results'[k] = results[k]

C28_RecordsAppendOnly == [][C28_AppendStep]_vars

C28_Witness ==
    /\ pc = "returned"
    /\ Len(all_layers) >= LongDocumentLen
    /\ Len(results) >= 11
    /\ results[11].index = 10

\* C29: the type stored in a record is what _get_layer_type returns for the
\* record's layer.
C29_TypeIsClassification ==
    \A k \in 1..Len(results) : results[k].type = _get_layer_type(Source(k))

\* The tool that is not running, and what its dispatch does with a layer.
OtherTool == IF variant = "basic" THEN "ai" ELSE "basic"

ToolRaster(tool, layer) ==
    IF tool = "basic"
    THEN BasicRaster(layer, _get_layer_type(layer), expand_smart_objects)
    ELSE AIRaster(layer, _get_layer_type(layer), expand_smart_objects)

ToolRecord(tool, layer, index) ==
    IF tool = "basic"
    THEN _create_layer_result(layer, index, _get_layer_type(layer))
    ELSE _create_layer_result_ai(layer, index, AIRecordType(_get_layer_type(layer)))

CoreFields ==
    {"index", "name", "type", "filename", "relative_path", "position",
     "visibility", "opacity", "blend_mode"}

Core(record) == [f \in CoreFields |-> record[f]]

\* C30: on the same layers and configuration the other tool does the same as
\* the running one: it exports exactly the layers that were exported, with
\* records equal on the core fields, and so ends with the same counts.
C30_VariantsAgree ==
    /\ \A k \in 1..i :
          LET layer == all_layers[k]
          IN  ( /\ ~GateSkips(export_invisible, IsVisible(layer))
                /\ ~ClassifyRaises(layer) )
              => ( (k - 1) \in Range(origin)
                     <=> (ToolRaster(OtherTool, layer) # NoImage /\ ~CreateRaises(layer)) )
    /\ \A j \in 1..Len(results) :
          Core(results[j]) = Core(ToolRecord(OtherTool, Source(j), j - 1))

====
